---- MODULE Spec2Model ----
(***************************************************************************)
(* Model of scripts/generate_site.py (VoiceOfCrypto terminal brief):       *)
(* load_sources -> fetch_items -> dedup -> pick_sections -> write.         *)
(*                                                                         *)
(* Text is a sequence of one-character strings, so that lower-casing,      *)
(* stripping, the regular-expression substitutions of normalize_title and  *)
(* the substring tests of score_item are computed character by character.  *)
(* Scores are integers in tenths (46 is 4.6), source weights are integers  *)
(* in tenths (8 is 0.8), and a product score * weight is in hundredths.    *)
(* Instants are integers (minutes); published_sgt is their zero-padded     *)
(* digit string, compared as Python compares strings.                      *)
(***************************************************************************)
EXTENDS Integers, Sequences, FiniteSets, TLC

VARIABLES
    \* ---- one run of main() ----
    pc,          \* position of main(): "load", "fetch_en", "fetch_zh", "pick", "done", "aborted"
    cfg,         \* the parsed YAML document handed to load_sources
    sources,     \* result of load_sources
    idx,         \* number of sources of the current language already fetched
    items,       \* the accumulator items of fetch_items
    en_items,    \* dedup(fetch_items(en_sources, ...))
    zh_items,    \* dedup(fetch_items(zh_sources, ...))
    sections,    \* the six lists unpacked from the two pick_sections calls
    written,     \* TRUE once index.html has been written
    fetched,     \* set of source ids on which feedparser.parse was called
    raised,      \* set of source ids whose feedparser.parse raised
    \* ---- dedup / pick_sections applied to an arbitrary list ----
    f_phase,     \* "input", "deduped", "rededuped", "reordered"
    f_in,        \* the argument list
    f_out,       \* dedup(f_in)
    f_out2,      \* dedup(f_out)
    f_perm,      \* f_in in another arrival order
    f_perm_out,  \* dedup(f_perm)
    f_secs,      \* pick_sections(f_out)
    f_perm_secs, \* pick_sections(f_perm_out)
    \* ---- pick_sections applied to a long list ----
    p_phase,     \* "input", "picked"
    p_in,        \* the argument list
    p_secs       \* pick_sections(p_in)

run_vars == <<pc, cfg, sources, idx, items, en_items, zh_items,
              sections, written, fetched, raised>>
fn_vars == <<f_phase, f_in, f_out, f_out2, f_perm, f_perm_out, f_secs, f_perm_secs>>
pick_vars == <<p_phase, p_in, p_secs>>
vars == <<run_vars, fn_vars, pick_vars>>

(***************************************************************************)
(* Bounds                                                                  *)
(***************************************************************************)
MaxLen == 3        \* longest list handed to dedup in SpecFn
MaxPick == 21      \* longest list handed to pick_sections in SpecPick
MaxEntries == 2    \* most entries one feed carries in SpecRun

(***************************************************************************)
(* Generic helpers                                                         *)
(***************************************************************************)
Min(a, b) == IF a <= b THEN a ELSE b

Range(s) == {s[i] : i \in 1..Len(s)}

\* s[:n]
Take(s, n) == SubSeq(s, 1, Min(n, Len(s)))

\* s[a:b] with 0-based, end-exclusive Python slice bounds
Slice(s, a, b) == SubSeq(s, a + 1, Min(b, Len(s)))

\* all sequences over S of length at most n
SeqsUpTo(S, n) == UNION {[1..k -> S] : k \in 0..n}

(***************************************************************************)
(* Characters and str methods                                              *)
(***************************************************************************)
UpperChars == <<"A","B","C","D","E","F","G","H","I","J","K","L","M",
                "N","O","P","Q","R","S","T","U","V","W","X","Y","Z">>
LowerChars == <<"a","b","c","d","e","f","g","h","i","j","k","l","m",
                "n","o","p","q","r","s","t","u","v","w","x","y","z">>

WhiteSpace == {" ", "\t", "\n"}
\* the double quote, the backtick and the curly quotes cannot be written in a
\* string here; each is one character, named by a token
QuoteChars == {"'", "dquote", "backtick", "ldquo", "rdquo", "rsquo"}
BracketChars == {"[", "]", "(", ")", "{", "}"}

LowerChar(c) ==
    IF \E i \in 1..26 : UpperChars[i] = c
    THEN LowerChars[CHOOSE i \in 1..26 : UpperChars[i] = c]
    ELSE c

\* str.lower()
Lower(s) == [i \in 1..Len(s) |-> LowerChar(s[i])]

\* str.strip()
Strip(s) ==
    LET keep == {i \in 1..Len(s) : s[i] \notin WhiteSpace}
    IN  IF keep = {} THEN <<>>
        ELSE LET lo == CHOOSE i \in keep : \A j \in keep : i <= j
                 hi == CHOOSE i \in keep : \A j \in keep : j <= i
             IN  SubSeq(s, lo, hi)

\* re.sub of a run of whitespace by one space
RECURSIVE CollapseWs(_)
CollapseWs(s) ==
    IF s = <<>> THEN <<>>
    ELSE IF s[1] \in WhiteSpace
         THEN IF Len(s) > 1 /\ s[2] \in WhiteSpace
              THEN CollapseWs(Tail(s))
              ELSE <<" ">> \o CollapseWs(Tail(s))
         ELSE <<s[1]>> \o CollapseWs(Tail(s))

\* re.sub of every character of a class by nothing
RemoveChars(s, chars) == SelectSeq(s, LAMBDA c : c \notin chars)

\* k in t
Contains(t, k) ==
    \E i \in 1..(Len(t) - Len(k) + 1) : SubSeq(t, i, i + Len(k) - 1) = k

\* Python's < on two strings (here: on two sequences of digits)
RECURSIVE StrLess(_, _)
StrLess(a, b) ==
    IF b = <<>> THEN FALSE
    ELSE IF a = <<>> THEN TRUE
    ELSE IF a[1] # b[1] THEN a[1] < b[1]
    ELSE StrLess(Tail(a), Tail(b))

(***************************************************************************)
(* Helpers of the script                                                   *)
(***************************************************************************)
normalize_title(s) ==
    LET s1 == Strip(Lower(s))
        s2 == CollapseWs(s1)
        s3 == RemoveChars(s2, QuoteChars)
        s4 == RemoveChars(s3, BracketChars)
    IN  s4

AnyIn(t, ks) == \E i \in 1..Len(ks) : Contains(t, ks[i])

SecurityWords ==
    << <<"h","a","c","k">>, <<"e","x","p","l","o","i","t">>, <<"d","r","a","i","n">>,
       <<"s","c","a","m">>, <<"p","h","i","s","h","i","n","g">>,
       <<"r","a","n","s","o","m">>, <<"b","r","e","a","c","h">> >>
RegulationWords ==
    << <<"s","e","c">>, <<"r","e","g","u","l","a","t">>, <<"b","i","l","l">>,
       <<"l","a","w">>, <<"c","o","u","r","t">>, <<"l","a","w","s","u","i","t">>,
       <<"b","a","n">>, <<"f","i","n","e">>, <<"p","r","o","b","e">> >>
CapitalWords ==
    << <<"e","t","f">>, <<"r","a","i","s","e","s">>, <<"r","a","i","s","e">>,
       <<"s","e","r","i","e","s">>, <<"f","u","n","d","i","n","g">>,
       <<"a","c","q","u","i","r","e">>, <<"a","c","q","u","i","s","i","t","i","o","n">>,
       <<"m","e","r","g","e","r">> >>
MarketWords ==
    << <<"b","t","c">>, <<"b","i","t","c","o","i","n">>, <<"e","t","h">>,
       <<"e","t","h","e","r">>, <<"p","r","i","c","e">>, <<"m","a","r","k","e","t">>,
       <<"l","i","q","u","i","d","a","t">>, <<"d","u","m","p">>, <<"p","u","m","p">> >>

classify(title) ==
    LET t == Lower(title)
    IN  IF AnyIn(t, SecurityWords) THEN "Security"
        ELSE IF AnyIn(t, RegulationWords) THEN "Regulation"
        ELSE IF AnyIn(t, CapitalWords) THEN "Biz/Capital"
        ELSE IF AnyIn(t, MarketWords) THEN "Markets"
        ELSE "General"

\* the table keywords of score_item, weights in tenths
keywords ==
    << [k |-> <<"e","x","p","l","o","i","t">>, w |-> 26],
       [k |-> <<"h","a","c","k">>, w |-> 26],
       [k |-> <<"d","r","a","i","n">>, w |-> 24],
       [k |-> <<"s","e","c">>, w |-> 21],
       [k |-> <<"l","a","w","s","u","i","t">>, w |-> 20],
       [k |-> <<"c","o","u","r","t">>, w |-> 18],
       [k |-> <<"e","t","f">>, w |-> 20],
       [k |-> <<"l","i","q","u","i","d","a","t">>, w |-> 20],
       [k |-> <<"s","t","a","b","l","e","c","o","i","n">>, w |-> 16],
       [k |-> <<"b","t","c">>, w |-> 6],
       [k |-> <<"e","t","h">>, w |-> 4] >>

NewsBase == 46     \* 4.6
OtherBase == 42    \* 4.2
ScoreCap == 100    \* 10.0

\* the loop over keywords adding w when k in t, from table row i on
RECURSIVE KeywordSum(_, _)
KeywordSum(t, i) ==
    IF i > Len(keywords) THEN 0
    ELSE (IF Contains(t, keywords[i].k) THEN keywords[i].w ELSE 0) + KeywordSum(t, i + 1)

\* base after the keyword loop, in tenths (a sum of one-decimal literals, so
\* round(base, 1) is that sum)
AccumulatedBase(title, kind) ==
    (IF kind = "news" THEN NewsBase ELSE OtherBase) + KeywordSum(Lower(title), 1)

\* float(min(10.0, round(base, 1)))
score_item(title, kind) == Min(ScoreCap, AccumulatedBase(title, kind))

\* round(x, 1) for x given in hundredths, result in tenths; an exact half
\* goes to the even tenth
Round1(h) ==
    LET q == h \div 10
        r == h % 10
    IN  IF r < 5 THEN q
        ELSE IF r > 5 THEN q + 1
        ELSE IF q % 2 = 0 THEN q ELSE q + 1

\* round(min(10.0, score_item(title, src.kind) * src.weight), 1)
StoredScore(title, kind, weight) ==
    Round1(Min(ScoreCap * 10, score_item(title, kind) * weight))

\* dt_sgt.isoformat(): every field zero-padded to a fixed width
IsoFormat(t) == <<t \div 10, t % 10>>


(***************************************************************************)
(* SourceCfg, RawEntry, Item                                               *)
(***************************************************************************)
DefaultWeight == 10    \* 1.0

RequiredFields == {"id", "name", "url", "lang", "kind"}

\* SourceCfg(id=s["id"], ..., weight=float(s.get("weight", 1.0)))
SourceCfg(s) ==
    [id |-> s.id, name |-> s.name, url |-> s.url, lang |-> s.lang, kind |-> s.kind,
     weight |-> IF "weight" \in DOMAIN s THEN s.weight ELSE DefaultWeight]

\* the Item built at the end of one iteration of the entry loop of fetch_items
MkItem(src, title, link, dt_sgt) ==
    [source |-> src.name, source_id |-> src.id, title |-> title, link |-> link,
     published_sgt |-> IsoFormat(dt_sgt), cls |-> classify(title),
     score |-> StoredScore(title, src.kind, src.weight),
     kind |-> src.kind, lang |-> src.lang]

(***************************************************************************)
(* dedup and pick_sections                                                 *)
(***************************************************************************)
\* key(a) < key(b) for key = lambda x: (-x.score, x.published_sgt)
KeyLess(a, b) ==
    \/ a.score > b.score
    \/ a.score = b.score /\ StrLess(a.published_sgt, b.published_sgt)

\* x put into the sorted list s behind every element whose key is not greater
RECURSIVE InsertByKey(_, _)
InsertByKey(x, s) ==
    IF s = <<>> THEN <<x>>
    ELSE IF KeyLess(x, s[1]) THEN <<x>> \o s
    ELSE <<s[1]>> \o InsertByKey(x, Tail(s))

\* sorted(items, key=...): stable, so equal keys keep their arrival order
RECURSIVE SortFrom(_, _)
SortFrom(s, acc) ==
    IF s = <<>> THEN acc ELSE SortFrom(Tail(s), InsertByKey(s[1], acc))

\* a sort that is the ascending sort read backwards: equal keys come out in
\* the reverse of their arrival order
RECURSIVE ReverseSeq(_)
ReverseSeq(s) == IF s = <<>> THEN <<>> ELSE ReverseSeq(Tail(s)) \o <<s[1]>>

sorted_items_unstable(its) == SortFrom(ReverseSeq(its), <<>>)

sorted_items(its) == SortFrom(its, <<>>)

\* the loop of dedup over the sorted list
RECURSIVE DedupScan(_, _, _)
DedupScan(s, seen, out) ==
    IF s = <<>> THEN out
    ELSE LET key == normalize_title(s[1].title)
         IN  IF key \in seen
             THEN DedupScan(Tail(s), seen, out)
             ELSE DedupScan(Tail(s), seen \cup {key}, out \o <<s[1]>>)

\* dedup keyed on the raw title
RECURSIVE DedupScanRaw(_, _, _)
DedupScanRaw(s, seen, out) ==
    IF s = <<>> THEN out
    ELSE LET key == s[1].title
         IN  IF key \in seen
             THEN DedupScanRaw(Tail(s), seen, out)
             ELSE DedupScanRaw(Tail(s), seen \cup {key}, out \o <<s[1]>>)

dedup_raw_title(its) == DedupScanRaw(sorted_items(its), {}, <<>>)

dedup(its) == DedupScan(sorted_items(its), {}, <<>>)

BreakingThreshold == 88    \* 8.8
BreakingCap == 2
HeadlinesCap == 5
QuickEnd == 17

\* pick_sections with rest = items_sorted (breaking not taken out)
pick_sections_keep_breaking(its) ==
    LET items_sorted == sorted_items(its)
        breaking == Take(SelectSeq(items_sorted, LAMBDA x : x.score >= BreakingThreshold),
                         BreakingCap)
        rest == items_sorted
    IN  [headlines |-> Take(rest, HeadlinesCap), breaking |-> breaking,
         quick |-> Slice(rest, HeadlinesCap, QuickEnd)]

\* pick_sections with the threshold test x.score > 8.8
pick_sections_strict(its) ==
    LET items_sorted == sorted_items(its)
        breaking == Take(SelectSeq(items_sorted, LAMBDA x : x.score > BreakingThreshold),
                         BreakingCap)
        rest == SelectSeq(items_sorted, LAMBDA x : x \notin Range(breaking))
    IN  [headlines |-> Take(rest, HeadlinesCap), breaking |-> breaking,
         quick |-> Slice(rest, HeadlinesCap, QuickEnd)]

\* the tuple (headlines, breaking, quick), as a record
pick_sections(its) ==
    LET items_sorted == sorted_items(its)
        breaking == Take(SelectSeq(items_sorted, LAMBDA x : x.score >= BreakingThreshold),
                         BreakingCap)
        rest == SelectSeq(items_sorted, LAMBDA x : x \notin Range(breaking))
    IN  [headlines |-> Take(rest, HeadlinesCap), breaking |-> breaking,
         quick |-> Slice(rest, HeadlinesCap, QuickEnd)]

NoSections == [headlines |-> <<>>, breaking |-> <<>>, quick |-> <<>>]


(***************************************************************************)
(* Data the specifications draw from                                       *)
(***************************************************************************)
SrcA == [id |-> "cd", name |-> "CoinDesk", url |-> "https://cd/rss",
         lang |-> "en", kind |-> "news", weight |-> 10]
SrcB == [id |-> "tb", name |-> "TheBlock", url |-> "https://tb/rss",
         lang |-> "en", kind |-> "news", weight |-> 8]
SrcZ == [id |-> "bb", name |-> "BlockBeats", url |-> "https://bb/rss",
         lang |-> "zh", kind |-> "newsflash", weight |-> 12]

T_HackSec == <<"H","a","c","k"," ","S","E","C">>
T_HackSecB == <<"[","h","a","c","k","]"," "," ","s","e","c">>
T_ExploitSec == <<"E","x","p","l","o","i","t"," ","S","E","C">>
T_Etf == <<"E","T","F">>
T_Triple == <<"E","x","p","l","o","i","t"," ","h","a","c","k"," ","d","r","a","i","n">>

Link1 == <<"u","/","1">>
Link2 == <<"u","/","2">>

FnSources == {SrcA, SrcB}
\* (title, link) of the entries: two entries whose titles normalize alike
\* under different links, and two entries of different titles under one link
\* (both titles score alike, so their Items can tie on the sort key)
FnEntries == {<<T_HackSec, Link1>>, <<T_HackSecB, Link2>>, <<T_ExploitSec, Link1>>}
FnTimes == {1, 2}

\* the Items fetch_items can build from these sources and entries
ItemUniverse ==
    {MkItem(src, e[1], e[2], d) : src \in FnSources, e \in FnEntries, d \in FnTimes}

IdleRun ==
    /\ pc = "idle" /\ cfg = <<>> /\ sources = <<>> /\ idx = 0
    /\ items = <<>> /\ en_items = <<>> /\ zh_items = <<>>
    /\ sections = <<>> /\ written = FALSE /\ fetched = {} /\ raised = {}
IdleFn ==
    /\ f_phase = "idle" /\ f_in = <<>> /\ f_out = <<>> /\ f_out2 = <<>>
    /\ f_perm = <<>> /\ f_perm_out = <<>> /\ f_secs = NoSections /\ f_perm_secs = NoSections
IdlePick ==
    /\ p_phase = "idle" /\ p_in = <<>> /\ p_secs = NoSections

(***************************************************************************)
(* SpecFn: dedup and pick_sections applied to every list of at most MaxLen *)
(* Items, once more to their own output, and to a reordering of the list   *)
(***************************************************************************)
\* s with the elements at positions i and j exchanged; every reordering is a
\* composition of such exchanges, and f_in ranges over every list
Swap(s, i, j) ==
    [n \in 1..Len(s) |-> IF n = i THEN s[j] ELSE IF n = j THEN s[i] ELSE s[n]]

InitFn ==
    /\ IdleRun /\ IdlePick
    /\ f_phase = "input"
    /\ f_in \in SeqsUpTo(ItemUniverse, MaxLen)
    /\ f_out = <<>> /\ f_out2 = <<>> /\ f_perm = <<>> /\ f_perm_out = <<>>
    /\ f_secs = NoSections /\ f_perm_secs = NoSections

\* en_items = dedup(...); pick_sections(en_items)
FnDedup ==
    /\ f_phase = "input"
    /\ f_out' = dedup(f_in)
    /\ f_secs' = pick_sections(f_out')
    /\ f_phase' = "deduped"
    /\ UNCHANGED <<f_in, f_out2, f_perm, f_perm_out, f_perm_secs, run_vars, pick_vars>>

\* dedup applied to its own output
FnRededup ==
    /\ f_phase = "deduped"
    /\ f_out2' = dedup(f_out)
    /\ f_phase' = "rededuped"
    /\ UNCHANGED <<f_in, f_out, f_perm, f_perm_out, f_secs, f_perm_secs, run_vars, pick_vars>>

\* the same Items arriving in another order
FnReorder ==
    /\ f_phase = "deduped"
    /\ \E i, j \in 1..Len(f_in) :
          /\ i < j
          /\ f_perm' = Swap(f_in, i, j)
          /\ f_perm_out' = dedup(f_perm')
          /\ f_perm_secs' = pick_sections(f_perm_out')
    /\ f_phase' = "reordered"
    /\ UNCHANGED <<f_in, f_out, f_out2, f_secs, run_vars, pick_vars>>

NextFn == FnDedup \/ FnRededup \/ FnReorder

SpecFn == InitFn /\ [][NextFn]_vars


(***************************************************************************)
(* SpecPick: pick_sections applied to lists of up to MaxPick Items         *)
(***************************************************************************)
Digits == <<"0","1","2","3","4","5","6","7","8","9">>

\* the title and link of the i-th story (i < 100)
TitleN(i) == <<"S","t","o","r","y"," ", Digits[(i \div 10) + 1], Digits[(i % 10) + 1]>>
LinkN(i) == <<"u","/", Digits[(i \div 10) + 1], Digits[(i % 10) + 1]>>

PickItem(i, sc) ==
    [source |-> SrcA.name, source_id |-> SrcA.id, title |-> TitleN(i), link |-> LinkN(i),
     published_sgt |-> IsoFormat(i \div 2), cls |-> classify(TitleN(i)),
     score |-> sc, kind |-> SrcA.kind, lang |-> SrcA.lang]

\* n stories in the order of the sort key: h of score 9.3, then e of score
\* 8.8, then the others at 8.7; story dup (when not 0) is a second copy of
\* the story before it
PickList(n, h, e, dup) ==
    [i \in 1..n |->
        LET j == IF dup # 0 /\ i = dup + 1 THEN dup ELSE i
        IN  PickItem(j, IF j <= h THEN 93 ELSE IF j <= h + e THEN 88 ELSE 87)]

InitPick ==
    /\ IdleRun /\ IdleFn
    /\ p_phase = "input"
    /\ \E n \in 0..MaxPick : \E h \in 0..Min(3, n) : \E e \in 0..Min(3, n - h) :
       \E dup \in 0..(IF n = 0 THEN 0 ELSE n - 1) : \E rev \in BOOLEAN :
          p_in = IF rev THEN ReverseSeq(PickList(n, h, e, dup)) ELSE PickList(n, h, e, dup)
    /\ p_secs = NoSections

Pick ==
    /\ p_phase = "input"
    /\ p_secs' = pick_sections(p_in)
    /\ p_phase' = "picked"
    /\ UNCHANGED <<p_in, run_vars, fn_vars>>

NextPick == Pick

SpecPick == InitPick /\ [][NextPick]_vars


(***************************************************************************)
(* SpecRun: one run of main()                                              *)
(***************************************************************************)
FeedCap == 80      \* entries[:80]

\* win_start and win_end of the run, and the instants entries can carry
Window == [start |-> 1, end |-> 2]

T_TripleWs == <<" ">> \o T_Triple \o <<" ">>
T_Blank == <<" ", " ">>
LinkWs == <<" ">> \o Link2
NoLink == <<>>

\* parsed feed entries: title, link, whether safe_parse_dt finds a date
\* (dated) and the instant it finds
EntryUniverse ==
    { [title |-> T_TripleWs, link |-> Link1, dated |-> TRUE, ts |-> 1],
      [title |-> T_Etf, link |-> LinkWs, dated |-> TRUE, ts |-> 2],
      [title |-> T_HackSec, link |-> Link1, dated |-> TRUE, ts |-> 2],
      [title |-> T_HackSec, link |-> Link1, dated |-> TRUE, ts |-> 0],
      [title |-> T_Etf, link |-> Link2, dated |-> TRUE, ts |-> 3],
      [title |-> T_Blank, link |-> Link1, dated |-> TRUE, ts |-> 1],
      [title |-> T_Etf, link |-> NoLink, dated |-> TRUE, ts |-> 1],
      [title |-> T_Etf, link |-> Link2, dated |-> FALSE, ts |-> 0] }

\* r without the key f
DropField(r, f) == [g \in DOMAIN r \ {f} |-> r[g]]

\* the documents yaml.safe_load can return for the configuration file
Configs ==
    { [sources |-> <<SrcA, SrcB, SrcZ>>],
      [sources |-> <<DropField(SrcA, "weight"), SrcB>>],
      [sources |-> <<SrcZ>>],
      [sources |-> <<>>],
      <<>> }
    \cup { [sources |-> <<SrcA, DropField(SrcB, f)>>] : f \in RequiredFields }

\* cfg.get("sources", [])
ConfiguredSources(c) == IF "sources" \in DOMAIN c THEN c.sources ELSE <<>>

\* a record on which one of s["id"], ..., s["kind"] raises KeyError
LacksRequired(s) == \E f \in RequiredFields : f \notin DOMAIN s

\* the body of the entry loop of fetch_items, over the entries es of one feed
RECURSIVE ItemsFromEntries(_, _)
ItemsFromEntries(src, es) ==
    IF es = <<>> THEN <<>>
    ELSE LET e == es[1]
             title == Strip(e.title)
             link == Strip(e.link)
             more == ItemsFromEntries(src, Tail(es))
         IN  IF ~e.dated THEN more
             ELSE IF ~(Window.start <= e.ts /\ e.ts <= Window.end) THEN more
             ELSE IF title = <<>> \/ link = <<>> THEN more
             ELSE <<MkItem(src, title, link, e.ts)>> \o more

ItemsFromFeed(src, entries) == ItemsFromEntries(src, Take(entries, FeedCap))

en_sources == SelectSeq(sources, LAMBDA s : s.lang = "en")
zh_sources == SelectSeq(sources, LAMBDA s : s.lang = "zh")
CurrentSources == IF pc = "fetch_en" THEN en_sources ELSE zh_sources

InitRun ==
    /\ IdleFn /\ IdlePick
    /\ pc = "load"
    /\ cfg \in Configs
    /\ sources = <<>> /\ idx = 0 /\ items = <<>>
    /\ en_items = <<>> /\ zh_items = <<>>
    /\ sections = <<>> /\ written = FALSE
    /\ fetched = {} /\ raised = {}

\* load_sources returns the list of SourceCfg
LoadSources ==
    /\ pc = "load"
    /\ \A i \in 1..Len(ConfiguredSources(cfg)) : ~LacksRequired(ConfiguredSources(cfg)[i])
    /\ sources' = [i \in 1..Len(ConfiguredSources(cfg)) |-> SourceCfg(ConfiguredSources(cfg)[i])]
    /\ pc' = "fetch_en"
    /\ UNCHANGED <<cfg, idx, items, en_items, zh_items, sections, written,
                   fetched, raised, fn_vars, pick_vars>>

\* load_sources raises KeyError, which nothing catches
LoadSourcesRaises ==
    /\ pc = "load"
    /\ \E i \in 1..Len(ConfiguredSources(cfg)) : LacksRequired(ConfiguredSources(cfg)[i])
    /\ pc' = "aborted"
    /\ UNCHANGED <<cfg, sources, idx, items, en_items, zh_items, sections, written,
                   fetched, raised, fn_vars, pick_vars>>

\* one iteration of `for src in sources`: feedparser.parse returns a feed
FetchSource ==
    /\ pc \in {"fetch_en", "fetch_zh"}
    /\ idx < Len(CurrentSources)
    /\ LET src == CurrentSources[idx + 1]
       IN  \E entries \in SeqsUpTo(EntryUniverse, MaxEntries) :
              /\ items' = items \o ItemsFromFeed(src, entries)
              /\ fetched' = fetched \cup {src.id}
    /\ idx' = idx + 1
    /\ UNCHANGED <<pc, cfg, sources, en_items, zh_items, sections, written, raised,
                   fn_vars, pick_vars>>

\* one iteration of `for src in sources`: feedparser.parse raises; neither
\* fetch_items nor main has a handler, so the exception ends the run
FetchRaises ==
    /\ pc \in {"fetch_en", "fetch_zh"}
    /\ idx < Len(CurrentSources)
    /\ LET src == CurrentSources[idx + 1]
       IN  /\ fetched' = fetched \cup {src.id}
           /\ raised' = raised \cup {src.id}
    /\ pc' = "aborted"
    /\ UNCHANGED <<cfg, sources, idx, items, en_items, zh_items, sections, written,
                   fn_vars, pick_vars>>

\* en_items = dedup(fetch_items(en_sources, ...)) if en_sources else []
FinishEn ==
    /\ pc = "fetch_en"
    /\ idx = Len(en_sources)
    /\ en_items' = IF en_sources # <<>> THEN dedup(items) ELSE <<>>
    /\ pc' = "fetch_zh"
    /\ idx' = 0
    /\ items' = <<>>
    /\ UNCHANGED <<cfg, sources, zh_items, sections, written, fetched, raised,
                   fn_vars, pick_vars>>

\* zh_items = dedup(fetch_items(zh_sources, ...)) if zh_sources else []
FinishZh ==
    /\ pc = "fetch_zh"
    /\ idx = Len(zh_sources)
    /\ zh_items' = IF zh_sources # <<>> THEN dedup(items) ELSE <<>>
    /\ pc' = "pick"
    /\ idx' = 0
    /\ items' = <<>>
    /\ UNCHANGED <<cfg, sources, en_items, sections, written, fetched, raised,
                   fn_vars, pick_vars>>

\* the two pick_sections calls, the rendering and the two files written
PickAndWrite ==
    /\ pc = "pick"
    /\ sections' = [en |-> pick_sections(en_items), zh |-> pick_sections(zh_items)]
    /\ written' = TRUE
    /\ pc' = "done"
    /\ UNCHANGED <<cfg, sources, idx, items, en_items, zh_items, fetched, raised,
                   fn_vars, pick_vars>>

NextRun ==
    \/ LoadSources \/ LoadSourcesRaises
    \/ FetchSource \/ FetchRaises
    \/ FinishEn \/ FinishZh
    \/ PickAndWrite

SpecRun == InitRun /\ [][NextRun]_vars


(***************************************************************************)
(* Properties                                                              *)
(***************************************************************************)
NoRepeats(l) == \A i, j \in 1..Len(l) : i # j => l[i] # l[j]

Deduplicated(l) ==
    \A i, j \in 1..Len(l) : i # j => normalize_title(l[i].title) # normalize_title(l[j].title)

\* l is in the order of the sort key of dedup and pick_sections
IsRanked(l) == \A i, j \in 1..Len(l) : i < j => ~KeyLess(l[j], l[i])

PairwiseDisjoint(secs) ==
    /\ Range(secs.breaking) \cap Range(secs.headlines) = {}
    /\ Range(secs.breaking) \cap Range(secs.quick) = {}
    /\ Range(secs.headlines) \cap Range(secs.quick) = {}

WithinCaps(secs) ==
    /\ Len(secs.breaking) <= 2
    /\ Len(secs.headlines) <= 5
    /\ Len(secs.quick) <= 12

\* C1 as stated: for every input list the three sections of pick_sections are
\* pairwise disjoint and hold at most 2, 5 and 12 Items.
C1_DisjointForEveryList ==
    p_phase = "picked" => PairwiseDisjoint(p_secs) /\ WithinCaps(p_secs)

\* C1 amended: for every input list the sections hold at most 2, 5 and 12
\* Items, and for every input list in which no Item occurs twice they are
\* pairwise disjoint.
C1_DisjointWithoutRepeats ==
    p_phase = "picked" =>
        /\ WithinCaps(p_secs)
        /\ NoRepeats(p_in) => PairwiseDisjoint(p_secs)

C1_Witness ==
    /\ p_phase = "picked"
    /\ NoRepeats(p_in)
    /\ Len(p_in) > 19
    /\ Len(p_secs.breaking) = 2 /\ Len(p_secs.headlines) = 5 /\ Len(p_secs.quick) = 12

\* C8: for a ranked, deduplicated input with k Items of score >= 8.8,
\* breaking is the first min(2, k) Items (all of score >= 8.8), headlines the
\* first 5 of the input behind breaking and quick the next 12, in ranked
\* order; a third Item of score >= 8.8 is in headlines, and each of the first
\* |breaking| + 17 Items is in exactly one section.
C8_SectionsByRank ==
    (p_phase = "picked" /\ IsRanked(p_in) /\ Deduplicated(p_in)) =>
        LET n == Len(p_in)
            k == Cardinality({i \in 1..n : p_in[i].score >= 88})
            b == Min(2, k)
            InOne(x) == Cardinality({sec \in {"breaking", "headlines", "quick"} :
                                        x \in Range(p_secs[sec])})
        IN  /\ p_secs.breaking = SubSeq(p_in, 1, b)
            /\ \A i \in 1..Len(p_secs.breaking) : p_secs.breaking[i].score >= 88
            /\ p_secs.headlines = SubSeq(p_in, b + 1, Min(b + 5, n))
            /\ p_secs.quick = SubSeq(p_in, b + 6, Min(b + 17, n))
            /\ k >= 3 => p_in[3] \in Range(p_secs.headlines)
            /\ \A i \in 1..Min(b + 17, n) : InOne(p_in[i]) = 1

C8_Witness ==
    /\ p_phase = "picked" /\ IsRanked(p_in) /\ Deduplicated(p_in)
    /\ Len(p_in) > 19
    /\ Cardinality({i \in 1..Len(p_in) : p_in[i].score >= 88}) >= 3
    /\ p_in[3] \in Range(p_secs.headlines)

\* C4: no two Items in the output of dedup have equal normalized titles.
C4_DistinctNormalizedTitles ==
    f_phase # "input" =>
        \A i, j \in 1..Len(f_out) :
            i # j => normalize_title(f_out[i].title) # normalize_title(f_out[j].title)

\* two Items of different titles that normalize alike went in, one came out
C4_Witness ==
    /\ f_phase = "deduped"
    /\ Len(f_out) >= 2
    /\ \E i, j \in 1..Len(f_in) :
          /\ f_in[i].title # f_in[j].title
          /\ normalize_title(f_in[i].title) = normalize_title(f_in[j].title)

\* C9: dedup(dedup(L)) is the same sequence as dedup(L).
C9_DedupIdempotent == f_phase = "rededuped" => f_out2 = f_out

\* dedup dropped an Item the first time and kept two Items of equal sort key
C9_Witness ==
    /\ f_phase = "rededuped"
    /\ Len(f_out) < Len(f_in)
    /\ \E i, j \in 1..Len(f_out) :
          i # j /\ ~KeyLess(f_out[i], f_out[j]) /\ ~KeyLess(f_out[j], f_out[i])

\* C3: dedup puts out Items by descending score, ties on score with the later
\* publication time first; among Items of equal normalized title the one
\* retained has the highest score and, among those, the latest publication.
C3_LaterFirstOnTies ==
    f_phase # "input" =>
        /\ \A i, j \in 1..Len(f_out) :
              i < j =>
                 \/ f_out[i].score > f_out[j].score
                 \/ /\ f_out[i].score = f_out[j].score
                    /\ ~StrLess(f_out[i].published_sgt, f_out[j].published_sgt)
        /\ \A i \in 1..Len(f_in) : \E j \in 1..Len(f_out) :
              /\ normalize_title(f_out[j].title) = normalize_title(f_in[i].title)
              /\ f_out[j].score >= f_in[i].score
              /\ f_out[j].score = f_in[i].score =>
                    ~StrLess(f_out[j].published_sgt, f_in[i].published_sgt)

\* C6: for two orderings of the same Items dedup returns the same sequence
\* and pick_sections the same three sections.
C6_ArrivalOrderIrrelevant ==
    f_phase = "reordered" => f_perm_out = f_out /\ f_perm_secs = f_secs

\* C10: no two Items in the output of dedup have an identical link.
C10_DistinctLinks ==
    f_phase # "input" =>
        \A i, j \in 1..Len(f_out) : i # j => f_out[i].link # f_out[j].link

\* C2: when the fetch of a source raises, the run is not aborted: the source
\* contributes no Items and the sections are produced from the others.
C2_FetchFailureTolerated == raised # {} => pc # "aborted"

\* a configuration error as the specification lists them
ConfigError(c) ==
    \/ ConfiguredSources(c) = <<>>
    \/ \E i \in 1..Len(ConfiguredSources(c)) : LacksRequired(ConfiguredSources(c)[i])

\* C7: on a configuration error (a record lacking id, name, url, lang or
\* kind, or no sources defined) the run aborts with no fetch and no output;
\* a record lacking only weight is loaded with weight 1.0.
C7_ConfigErrorAborts ==
    /\ ConfigError(cfg) => (pc \in {"load", "aborted"} /\ fetched = {} /\ ~written)
    /\ \A i \in 1..Len(sources) :
          "weight" \notin DOMAIN ConfiguredSources(cfg)[i] => sources[i].weight = 10

\* the score C5 describes: one clamp, applied to the product
ClaimedScore(title, kind, weight) ==
    Round1(Min(ScoreCap * 10, AccumulatedBase(title, kind) * weight))

\* C5: the stored score is (baseline + keyword weights) * source weight,
\* clamped to 10.0 after the multiplication only, rounded to one decimal.
C5_ClampAfterWeight ==
    \A i \in 1..Len(items) :
        LET src == CHOOSE s \in Range(sources) : s.id = items[i].source_id
        IN  items[i].score = ClaimedScore(items[i].title, src.kind, src.weight)

====
